---------------------------- MODULE Spec2Model ----------------------------
(***************************************************************************)
(* Model of the Oura OAuth server (src/oura_oauth_server.py): the users    *)
(* table behind the module-level sqlite connection and cursor, the OAuth   *)
(* callback get_token, identity resolution get_oura_email, the             *)
(* all-category fetch fetch_oura_data with save_json, and the file         *)
(* download route download_json.                                           *)
(*                                                                         *)
(* A request is handled by a worker p.  A handler is cut into steps at the *)
(* places where it waits for the upstream API or touches the shared        *)
(* cursor: the upstream's answer is the input of the step that receives it *)
(* and a step is everything the handler does until the next such place.    *)
(* Disk writes of save_json are taken to succeed, and a run of Spec stays   *)
(* within one calendar day (file names carry the date of the day).  The    *)
(* server starts on an empty users table and an empty BASE_FOLDER.         *)
(***************************************************************************)
EXTENDS Integers, Sequences, FiniteSets, TLC

(* ------------------------------ bounds --------------------------------- *)

\* Requests handled in one run of the server.
MaxRequests == 3

\* Workers of the server (app.run serves threaded), and those that take
\* requests in Spec: one request at a time.
Procs == {1, 2}
SeqProcs == {1}

\* Years the server's clock is in.
FirstYear == 2095
LastYear == 2100

(* --------------------------- input domains ----------------------------- *)

\* Python's None.
None == "None"

\* request.args.get("code"): None when the parameter is absent, "" when empty.
Codes == {None, "", "code"}

Tokens == {"t1", "t2"}
\* Emails the personal_info endpoint reports, and the identity get_oura_email
\* falls back to; together the identities the store can hold.
Identities == {"a@x.io"}
UnknownUser == "unknown_user"

\* Statuses the upstream answers with: 200, a 2xx that is not 200, a 4xx, a 5xx.
Statuses == {200, 201, 401, 500}

Is2xx(status) == status >= 200 /\ status < 300

\* An upstream answer.  kind "transport": requests raised a
\* RequestException and there is no response.  shape is the body:
\*   "object"    a JSON object; value is the field the caller reads
\*               (access_token, email) or None when the object lacks it
\*   "data"      a JSON object whose data field is a non-empty list
\*   "empty"     a JSON object whose data field is an empty list
\*   "array"     valid JSON that is not an object
\*   "malformed" not JSON
Transport == [kind |-> "transport", status |-> 0, shape |-> "none", value |-> None]

Http(status, shape, value) ==
    [kind |-> "http", status |-> status, shape |-> shape, value |-> value]

TokenOutcomes ==
    {Transport}
    \cup {Http(s, "object", v) : s \in Statuses, v \in Tokens \cup {None}}
    \cup {Http(s, sh, None) : s \in Statuses, sh \in {"array", "malformed"}}

IdentityOutcomes ==
    {Transport}
    \cup {Http(s, "object", v) : s \in Statuses, v \in Identities \cup {None}}
    \cup {Http(s, sh, None) : s \in Statuses, sh \in {"array", "malformed"}}

\* The body of a 4xx or 5xx answer of a category endpoint is an error object.
CategoryOutcomes ==
    {Transport}
    \cup {Http(s, sh, None) : s \in {t \in Statuses : Is2xx(t)},
                              sh \in {"data", "empty", "object", "array", "malformed"}}
    \cup {Http(s, "object", None) : s \in {t \in Statuses : ~Is2xx(t)}}

(* ------------------------- static configuration ------------------------ *)

\* fetch_oura_data.endpoints, in declaration order (dict order in Python).
endpoints ==
    << "email", "personal_info", "daily_data",
       "heart_rate_data", "workout_data", "tags_data" >>

Categories == {endpoints[i] : i \in 1..Len(endpoints)}

\* data_type values a download may name: the categories and one that is not.
DataTypes == Categories \cup {"bogus_type"}

TokenEndpoint == "oauth/token"
PersonalInfo == "usercollection/personal_info"

(* ------------------------------ messages ------------------------------- *)

NoCodeMsg == "Error: No authorization code received."
ExchangeErrorMsg == "Error retrieving token"
GrantedMsg == "Access granted! Data has been stored."
CompleteMsg == "Data retrieval and saving complete"
ServerErrorMsg == "Internal Server Error"
NoError == "no error key"

(* ------------------------------- state --------------------------------- *)

VARIABLES
    users,        \* the users table: sequence of rows <<id, email, access_token>>
    cursor,       \* the module-level cursor: rows of its last statement not yet fetched
    files,        \* JSON files under BASE_FOLDER: set of <<email, data_type>>
    pc,           \* where each worker is
    loc,          \* each worker's request arguments and local variables
    sent,         \* upstream requests the worker's current request has issued
    resp,         \* the response of the worker's last finished request
    nreq,         \* requests received so far
    today         \* the date of the server's clock: <<year, month, day>>

vars == << users, cursor, files, pc, loc, sent, resp, nreq, today >>

\* fetch_oura_data.params before it is computed.  A formatted date is the
\* sequence of its characters.
NoParams == [start_date |-> << >>, end_date |-> << >>]

\* A worker's locals.  exchange is the token endpoint's answer (exchanged:
\* one has come); last is the answer get_oura_email received, or the answer
\* to a category request on which fetch_oura_data returned.
NoLoc ==
    [handler |-> "none", auth_code |-> None, email |-> None, data_type |-> None,
     access_token |-> None, idx |-> 0, saved_files |-> << >>,
     exchange |-> Transport, last |-> Transport, exchanged |-> FALSE,
     params |-> NoParams]

NoResp ==
    [status |-> 0, text |-> "", error |-> NoError, upstream_status |-> 0,
     upstream_body |-> << "none", None >>, saved_files |-> << >>]

Reply(status, text, error) ==
    [NoResp EXCEPT !.status = status, !.text = text, !.error = error]

\* An exception nothing catches: Flask answers 500.
Fault == Reply(500, ServerErrorMsg, NoError)

Init ==
    /\ users = << >>
    /\ cursor = << >>
    /\ files = {}
    /\ pc = [p \in Procs |-> "idle"]
    /\ loc = [p \in Procs |-> NoLoc]
    /\ sent = [p \in Procs |-> << >>]
    /\ resp = [p \in Procs |-> NoResp]
    /\ nreq = 0
    /\ today = << FirstYear, 1, 1 >>

(* ---------------------------- the database ----------------------------- *)

\* INSERT INTO users (email, access_token) VALUES (?, ?): a new row with the
\* next rowid; the table has no uniqueness constraint on email.  The rowid is
\* written as its decimal string: a handler that reads the first column of a
\* result set another handler's statement left in the cursor uses it as a
\* token (f"Bearer {access_token}" formats it so).
InsertUser(rows, email, access_token) ==
    Append(rows, << ToString(Len(rows) + 1), email, access_token >>)

\* SELECT * FROM users WHERE email=?: the matching rows in rowid order.
SelectUsers(rows, email) ==
    SelectSeq(rows, LAMBDA r : r[2] = email)

\* SELECT access_token FROM users WHERE email=?: one column, rowid order.
RECURSIVE SelectAccessToken(_, _)
SelectAccessToken(rows, email) ==
    IF rows = << >> THEN << >>
    ELSE IF Head(rows)[2] = email
         THEN << << Head(rows)[3] >> >> \o SelectAccessToken(Tail(rows), email)
         ELSE SelectAccessToken(Tail(rows), email)

\* cursor.fetchone() leaves the rows after the one it returns.
AfterFetchOne(cur) == IF cur = << >> THEN << >> ELSE Tail(cur)

\* "if not row" after row = cursor.fetchone(): fetchone gave None.
NoRow(cur) == cur = << >>

(* ------------------------------ requests ------------------------------- *)

\* One upstream request: the endpoint, the bearer token of its Authorization
\* header (None when it has none) and whether it carries start_date/end_date.
UpstreamRequest(endpoint, bearer, dated) ==
    [endpoint |-> endpoint, bearer |-> bearer, dated |-> dated]

Receive(p, handler) ==
    /\ pc[p] = "idle"
    /\ nreq < MaxRequests
    /\ nreq' = nreq + 1
    /\ handler \in {"get_token", "fetch_oura_data", "download_json"}

\* The request of worker p ends with response r.
Return(p, r) ==
    /\ pc' = [pc EXCEPT ![p] = "done"]
    /\ resp' = [resp EXCEPT ![p] = r]

\* The response has gone to the client and the handler's locals are gone:
\* the worker is free for the next request.
Close(p) ==
    /\ pc[p] = "done"
    /\ pc' = [pc EXCEPT ![p] = "idle"]
    /\ loc' = [loc EXCEPT ![p] = NoLoc]
    /\ sent' = [sent EXCEPT ![p] = << >>]
    /\ resp' = [resp EXCEPT ![p] = NoResp]
    /\ UNCHANGED << users, cursor, files, nreq, today >>

(* -------------------------------- dates ------------------------------- *)

\* datetime.date arithmetic as the datetime module computes it: a date is
\* turned into its proleptic Gregorian ordinal (day 1 is 0001-01-01), the
\* timedelta's days are subtracted, and the ordinal is turned back.
DAYS_IN_MONTH == << 31, 28, 31, 30, 31, 30, 31, 31, 30, 31, 30, 31 >>
DAYS_BEFORE_MONTH == << 0, 31, 59, 90, 120, 151, 181, 212, 243, 273, 304, 334 >>

is_leap(year) == year % 4 = 0 /\ (year % 100 # 0 \/ year % 400 = 0)

days_before_year(year) ==
    LET y == year - 1 IN y * 365 + (y \div 4) - (y \div 100) + (y \div 400)

days_before_month(year, month) ==
    DAYS_BEFORE_MONTH[month] + (IF month > 2 /\ is_leap(year) THEN 1 ELSE 0)

\* date.toordinal()
ymd2ord(d) == days_before_year(d[1]) + days_before_month(d[1], d[2]) + d[3]

\* date.fromordinal(n)
ord2ymd(ordinal) ==
    LET di400y == days_before_year(401)
        di100y == days_before_year(101)
        di4y == days_before_year(5)
        a == ordinal - 1
        n400 == a \div di400y
        b == a % di400y
        n100 == b \div di100y
        c == b % di100y
        n4 == c \div di4y
        e == c % di4y
        n1 == e \div 365
        n == e % 365
        year == n400 * 400 + 1 + n100 * 100 + n4 * 4 + n1
        leapyear == n1 = 3 /\ (n4 # 24 \/ n100 = 3)
        month == (n + 50) \div 32
        preceding == DAYS_BEFORE_MONTH[month]
                         + (IF month > 2 /\ leapyear THEN 1 ELSE 0)
    IN  IF n1 = 4 \/ n100 = 4 THEN << year - 1, 12, 31 >>
        ELSE IF preceding > n
        THEN LET before == month - 1
                 less == preceding - (DAYS_IN_MONTH[before]
                             + (IF before = 2 /\ leapyear THEN 1 ELSE 0))
             IN  << year, before, n - less + 1 >>
        ELSE << year, month, n - preceding + 1 >>

Digits == << "0", "1", "2", "3", "4", "5", "6", "7", "8", "9" >>

\* The last width decimal digits of n, zero-padded.
RECURSIVE Padded(_, _)
Padded(n, width) ==
    IF width = 0 THEN << >>
    ELSE Padded(n \div 10, width - 1) \o << Digits[(n % 10) + 1] >>

\* d.strftime('%Y-%m-%d')
strftime(d) ==
    Padded(d[1], 4) \o << "-" >> \o Padded(d[2], 2) \o << "-" >> \o Padded(d[3], 2)

\* timedelta(days=365)
WindowDays == 365

\* Mutant: the same day of the month one year earlier.
StartDateLastYear(end_date) == << end_date[1] - 1, end_date[2], end_date[3] >>

\* start_date = end_date - timedelta(days=365)
StartDate(end_date) == ord2ymd(ymd2ord(end_date) - WindowDays)

\* params = {'start_date': ..., 'end_date': ...} for end_date = today's date.
DateParams(end_date) ==
    [start_date |-> strftime(StartDate(end_date)), end_date |-> strftime(end_date)]

\* The calendar the clock follows: the length of a month.
MonthLength(year, month) ==
    IF month \in {4, 6, 9, 11} THEN 30
    ELSE IF month # 2 THEN 31
    ELSE IF year % 400 = 0 \/ (year % 4 = 0 /\ year % 100 # 0) THEN 29
    ELSE 28

\* The days of the years from..to.
Calendar(from, to) ==
    {d \in (from..to) \X (1..12) \X (1..31) : d[3] <= MonthLength(d[1], d[2])}

Dates == Calendar(FirstYear, LastYear)

(* ------------------------ get_token  (/callback) ----------------------- *)

\* Mutant: only an absent code is rejected ("if auth_code is None").
HasCodeNotNone(auth_code) == auth_code # None

\* "if not auth_code" is false: the code is neither None nor empty.
HasCode(auth_code) == auth_code # None /\ auth_code # ""

\* Mutant: any 2xx status passes ("if response.ok").
ExchangeOkAny2xx(status) == status >= 200 /\ status < 300

\* "if response.status_code == 200" of the token exchange.
ExchangeOk(status) == status = 200

\* response.json() returns (a JSON body) instead of raising.
JsonDecodes(o) == o.shape # "malformed"

\* <decoded body>.get(...) works: the decoded body is a dict.
IsDict(o) == o.shape \in {"object", "data", "empty"}

\* get_token up to requests.post(token_url, data=payload).
CallbackStart(p, auth_code) ==
    /\ Receive(p, "get_token")
    /\ loc' = [loc EXCEPT ![p] =
                 [NoLoc EXCEPT !.handler = "get_token", !.auth_code = auth_code]]
    /\ IF ~HasCode(auth_code)
       THEN /\ Return(p, Reply(200, NoCodeMsg, NoError))
            /\ sent' = [sent EXCEPT ![p] = << >>]
       ELSE /\ pc' = [pc EXCEPT ![p] = "exchange"]
            /\ resp' = [resp EXCEPT ![p] = NoResp]
            /\ sent' = [sent EXCEPT ![p] =
                          << UpstreamRequest(TokenEndpoint, None, FALSE) >>]
    /\ UNCHANGED << users, cursor, files, today >>

\* get_token from the answer of the token endpoint to the call of
\* get_oura_email (its requests.get), or to the error return.
ExchangeResponse(p, o) ==
    /\ pc[p] = "exchange"
    /\ o \in TokenOutcomes
    /\ IF o.kind = "transport"
       THEN /\ Return(p, Fault)
            /\ UNCHANGED sent
            /\ loc' = [loc EXCEPT ![p].exchange = o, ![p].exchanged = TRUE]
       ELSE IF ExchangeOk(o.status)
       THEN IF JsonDecodes(o) /\ IsDict(o)
            THEN /\ pc' = [pc EXCEPT ![p] = "resolve"]
                 /\ loc' = [loc EXCEPT ![p].exchange = o, ![p].exchanged = TRUE,
                                       ![p].access_token = o.value]
                 /\ sent' = [sent EXCEPT ![p] =
                               Append(@, UpstreamRequest(PersonalInfo, o.value, FALSE))]
                 /\ UNCHANGED resp
            ELSE /\ Return(p, Fault)
                 /\ UNCHANGED sent
                 /\ loc' = [loc EXCEPT ![p].exchange = o, ![p].exchanged = TRUE]
       ELSE /\ Return(p, [Reply(200, ExchangeErrorMsg, NoError) EXCEPT
                             !.upstream_status = o.status,
                             !.upstream_body = << o.shape, o.value >>])
            /\ UNCHANGED sent
            /\ loc' = [loc EXCEPT ![p].exchange = o, ![p].exchanged = TRUE]
    /\ UNCHANGED << users, cursor, files, nreq, today >>

\* get_oura_email from the answer of the personal_info endpoint: the email
\* it returns, or raised = TRUE when it raises.
GetOuraEmail(o) ==
    IF o.kind = "transport"
    THEN [raised |-> TRUE, email |-> None]
    ELSE IF o.status = 200
    THEN IF JsonDecodes(o) /\ IsDict(o)
         THEN [raised |-> FALSE,
               email |-> IF o.value = None THEN UnknownUser ELSE o.value]
         ELSE [raised |-> TRUE, email |-> None]
    ELSE [raised |-> FALSE, email |-> UnknownUser]

\* get_token from the return of get_oura_email to the INSERT.
ResolveResponse(p, o) ==
    /\ pc[p] = "resolve"
    /\ o \in IdentityOutcomes
    /\ LET r == GetOuraEmail(o) IN
       IF r.raised
       THEN /\ Return(p, Fault)
            /\ loc' = [loc EXCEPT ![p].last = o]
       ELSE /\ pc' = [pc EXCEPT ![p] = "insert"]
            /\ loc' = [loc EXCEPT ![p].last = o, ![p].email = r.email]
            /\ UNCHANGED resp
    /\ UNCHANGED << users, cursor, files, sent, nreq, today >>

\* cursor.execute("INSERT INTO users ...") and conn.commit().
SaveToken(p) ==
    /\ pc[p] = "insert"
    /\ users' = InsertUser(users, loc[p].email, loc[p].access_token)
    /\ cursor' = << >>
    /\ pc' = [pc EXCEPT ![p] = "select"]
    /\ UNCHANGED << files, loc, sent, resp, nreq, today >>

\* cursor.execute("SELECT * FROM users WHERE email=?").
CheckSaved(p) ==
    /\ pc[p] = "select"
    /\ cursor' = SelectUsers(users, loc[p].email)
    /\ pc' = [pc EXCEPT ![p] = "fetchone"]
    /\ UNCHANGED << users, files, loc, sent, resp, nreq, today >>

\* saved_user = cursor.fetchone() and the success return.
CallbackReturn(p) ==
    /\ pc[p] = "fetchone"
    /\ cursor' = AfterFetchOne(cursor)
    /\ Return(p, Reply(200, GrantedMsg, NoError))
    /\ UNCHANGED << users, files, loc, sent, nreq, today >>

(* --------------- fetch_oura_data  (/fetch_oura_data/<email>) ----------- *)

\* response.raise_for_status() raises HTTPError: a 4xx or 5xx status.
RaisesForStatus(status) == status >= 400 /\ status < 600

\* One pass of the loop body for the answer o to the category's request:
\*   "caught"  a RequestException, logged, continue
\*   "fault"   another exception, which leaves the handler
\*   "saved"   data is non-empty: save_json and saved_files.append
\*   "skipped" data is empty: no file
\* What response.json() raises on a body that is not JSON depends on the
\* installed requests: a RequestException subclass (caught) or a plain
\* ValueError (not caught); both are possible.
FetchCategory(o) ==
    IF o.kind = "transport" THEN {"caught"}
    ELSE IF RaisesForStatus(o.status) THEN {"caught"}
    ELSE IF ~JsonDecodes(o) THEN {"caught", "fault"}
    ELSE IF ~IsDict(o) THEN {"fault"}
    ELSE IF o.shape = "data" THEN {"saved"}
    ELSE {"skipped"}

\* Mutant: the loop asks again for the category before the one it is at.
CategoryRequestAgain(i, access_token) ==
    UpstreamRequest(endpoints[IF i > 1 THEN i - 1 ELSE i], access_token, TRUE)

\* The request the loop issues for endpoints[i]: bearer token and params.
CategoryRequest(i, access_token) ==
    UpstreamRequest(endpoints[i], access_token, TRUE)

\* save_json(client_folder, email, key, data) with non-empty data.
SaveJson(fs, email, key) == fs \cup {<< email, key >>}

\* cursor.execute("SELECT access_token FROM users WHERE email=?").
FetchStart(p, email) ==
    /\ Receive(p, "fetch_oura_data")
    /\ loc' = [loc EXCEPT ![p] =
                 [NoLoc EXCEPT !.handler = "fetch_oura_data", !.email = email]]
    /\ cursor' = SelectAccessToken(users, email)
    /\ pc' = [pc EXCEPT ![p] = "fetch_row"]
    /\ resp' = [resp EXCEPT ![p] = NoResp]
    /\ sent' = [sent EXCEPT ![p] = << >>]
    /\ UNCHANGED << users, files, today >>

\* row = cursor.fetchone(), the 404 return, or the date range of the last
\* year and on to the first request of the loop over endpoints.
FetchRow(p) ==
    /\ pc[p] = "fetch_row"
    /\ cursor' = AfterFetchOne(cursor)
    /\ IF NoRow(cursor)
       THEN /\ Return(p, Reply(404, "", "User not found"))
            /\ UNCHANGED << loc, sent >>
       ELSE /\ pc' = [pc EXCEPT ![p] = "category"]
            /\ loc' = [loc EXCEPT ![p].access_token = Head(cursor)[1],
                                  ![p].idx = 1,
                                  ![p].params = DateParams(today)]
            /\ sent' = [sent EXCEPT ![p] = << CategoryRequest(1, Head(cursor)[1]) >>]
            /\ UNCHANGED resp
    /\ UNCHANGED << users, files, nreq, today >>

\* The loop body for the answer to the request of endpoints[idx], then the
\* next request, or the return after the last one.
CategoryResponse(p, o) ==
    /\ pc[p] = "category"
    /\ o \in CategoryOutcomes
    /\ \E how \in FetchCategory(o) :
       LET key == endpoints[loc[p].idx]
           saved == IF how = "saved"
                    THEN Append(loc[p].saved_files, key)
                    ELSE loc[p].saved_files
       IN
       /\ files' = IF how = "saved" THEN SaveJson(files, loc[p].email, key) ELSE files
       /\ IF how = "fault"
          THEN /\ Return(p, Fault)
               /\ loc' = [loc EXCEPT ![p].last = o]
               /\ UNCHANGED sent
          ELSE IF loc[p].idx = Len(endpoints)
          THEN /\ Return(p, [Reply(200, CompleteMsg, NoError) EXCEPT
                                !.saved_files = saved])
               /\ loc' = [loc EXCEPT ![p].last = o, ![p].saved_files = saved]
               /\ UNCHANGED sent
          ELSE /\ loc' = [loc EXCEPT ![p].saved_files = saved, ![p].idx = @ + 1]
               /\ sent' = [sent EXCEPT ![p] =
                             Append(@, CategoryRequest(loc[p].idx + 1,
                                                       loc[p].access_token))]
               /\ UNCHANGED << pc, resp >>
    /\ UNCHANGED << users, cursor, nreq, today >>

(* ------------ download_json  (/download/<email>/<data_type>) ----------- *)

\* Mutant: the path leaves out the user's folder.
FileExistsAnyUser(fs, email, data_type) == \E f \in fs : f[2] = data_type

\* Mutant: the path leaves out the data type.
FileExistsAnyType(fs, email, data_type) == \E f \in fs : f[1] = email

\* os.path.exists(file_path) for BASE_FOLDER/<email>/<data_type>_<today>.json.
FileExists(fs, email, data_type) == << email, data_type >> \in fs

DownloadJson(p, email, data_type) ==
    /\ Receive(p, "download_json")
    /\ loc' = [loc EXCEPT ![p] =
                 [NoLoc EXCEPT !.handler = "download_json", !.email = email,
                               !.data_type = data_type]]
    /\ IF FileExists(files, email, data_type)
       THEN Return(p, Reply(200, "file", NoError))
       ELSE Return(p, Reply(404, "", "File not found"))
    /\ sent' = [sent EXCEPT ![p] = << >>]
    /\ UNCHANGED << users, cursor, files, today >>

(* --------------------------- specification ----------------------------- *)

\* Identities a request may name.
Emails == Identities \cup {UnknownUser}

Step(p) ==
    \/ \E auth_code \in Codes : CallbackStart(p, auth_code)
    \/ \E o \in TokenOutcomes : ExchangeResponse(p, o)
    \/ \E o \in IdentityOutcomes : ResolveResponse(p, o)
    \/ SaveToken(p)
    \/ CheckSaved(p)
    \/ CallbackReturn(p)
    \/ \E email \in Emails : FetchStart(p, email)
    \/ FetchRow(p)
    \/ \E o \in CategoryOutcomes : CategoryResponse(p, o)
    \/ \E email \in Emails, data_type \in DataTypes : DownloadJson(p, email, data_type)
    \/ Close(p)

\* Requests are handled one at a time.
Next == \E p \in SeqProcs : Step(p)

Spec == Init /\ [][Next]_vars

\* Concurrent requests: app.run serves each request on its own thread, and
\* the threads share conn and cursor without a lock, so the steps of two
\* handlers interleave.  The upstream answers every request with 200: the
\* token endpoint with a token, personal_info with an email or without one,
\* a category with data.
ConcStep(p) ==
    \/ CallbackStart(p, "code")
    \/ \E t \in Tokens : ExchangeResponse(p, Http(200, "object", t))
    \/ \E v \in Identities \cup {None} : ResolveResponse(p, Http(200, "object", v))
    \/ SaveToken(p)
    \/ CheckSaved(p)
    \/ CallbackReturn(p)
    \/ \E email \in Emails : FetchStart(p, email)
    \/ FetchRow(p)
    \/ CategoryResponse(p, Http(200, "data", None))
    \/ Close(p)

NextConc == \E p \in Procs : ConcStep(p)

SpecConc == Init /\ [][NextConc]_vars

\* The steps a handler takes by itself, which its thread always gets to run:
\* statements on the database and the return.  The steps that receive an
\* upstream answer are not among them: requests.post and requests.get are
\* called without timeout=, so they return only when the upstream answers or
\* the connection fails.
LocalStep(p) ==
    \/ SaveToken(p)
    \/ CheckSaved(p)
    \/ CallbackReturn(p)
    \/ FetchRow(p)
    \/ Close(p)

SpecLive == Init /\ [][Next]_vars /\ \A p \in SeqProcs : WF_vars(LocalStep(p))

\* The date range of a fetch, on any day of the clock: the server has
\* handled one granted callback, and from then on takes fetches up to the
\* first request of their loop (params is computed before the loop and stays
\* as it is).
InitDates ==
    /\ users = InsertUser(<< >>, "a@x.io", "t1")
    /\ cursor = << >>
    /\ files = {}
    /\ pc = [p \in Procs |-> "idle"]
    /\ loc = [p \in Procs |-> NoLoc]
    /\ sent = [p \in Procs |-> << >>]
    /\ resp = [p \in Procs |-> NoResp]
    /\ nreq = 1
    /\ today \in Dates

NextDates ==
    \E p \in SeqProcs :
        \/ \E email \in Emails : FetchStart(p, email)
        \/ FetchRow(p)
        \/ Close(p)

SpecDates == InitDates /\ [][NextDates]_vars

(* ------------------------------ claims --------------------------------- *)

\* The identity has a record in the token store.
Stored(email) == SelectUsers(users, email) # << >>

\* The access token of the identity's most recently written record.
LatestToken(email) ==
    LET m == SelectUsers(users, email) IN m[Len(m)][3]

\* Worker p's request, of the given handler, has returned.
Returned(p, handler) == pc[p] = "done" /\ loc[p].handler = handler

\* C1 (as claimed): the token store holds at most one record per identity,
\* whatever callbacks have succeeded.
C1_OneRecordPerIdentity ==
    \A email \in Emails : Len(SelectUsers(users, email)) <= 1

\* C2 (as claimed): the token a fetch looks up for its identity is the one the
\* most recent callback for that identity wrote (every record of the identity
\* carrying a token).
C2_LookupReturnsLatest ==
    \A p \in Procs :
        (/\ loc[p].handler = "fetch_oura_data" /\ pc[p] = "category"
         /\ \A i \in 1..Len(users) :
               users[i][2] = loc[p].email => users[i][3] \in Tokens)
            => loc[p].access_token = LatestToken(loc[p].email)

\* C3: a callback whose code is absent or empty returns the no-code error at
\* once: no upstream request is issued and the users table is unchanged.
C3_MissingCode ==
    [][\A p \in Procs :
          (pc[p] = "idle" /\ loc'[p].handler = "get_token"
                          /\ loc'[p].auth_code \in {None, ""})
              => /\ pc'[p] = "done"
                 /\ resp'[p].text = NoCodeMsg
                 /\ sent'[p] = << >>
                 /\ users' = users]_vars

\* C3 witness: a callback with an empty code has returned the no-code error.
C3_Witness ==
    \E p \in Procs :
        /\ Returned(p, "get_token")
        /\ loc[p].auth_code = ""
        /\ resp[p].text = NoCodeMsg
        /\ sent[p] = << >>

\* The step in which worker p receives the token endpoint's HTTP answer.
ExchangeAnswered(p) ==
    pc[p] = "exchange" /\ pc'[p] # "exchange" /\ loc'[p].exchange.kind = "http"

\* That step ends the callback with the exchange error carrying the answer's
\* status and body, with no further request and no write to the store.
ExchangeFailed(p) ==
    /\ pc'[p] = "done"
    /\ resp'[p].text = ExchangeErrorMsg
    /\ resp'[p].upstream_status = loc'[p].exchange.status
    /\ resp'[p].upstream_body = << loc'[p].exchange.shape, loc'[p].exchange.value >>
    /\ sent'[p] = sent[p]
    /\ users' = users

\* C4 (as claimed): every non-2xx answer to the code exchange ends the
\* callback with ExchangeFailed, and every 2xx answer is taken as a successful
\* exchange.
C4_Non2xxExchangeFailed ==
    [][\A p \in Procs :
          ExchangeAnswered(p)
              => IF Is2xx(loc'[p].exchange.status)
                 THEN resp'[p].text # ExchangeErrorMsg
                 ELSE ExchangeFailed(p)]_vars

\* C4 (amended): every answer to the code exchange whose status is not 200
\* ends the callback with ExchangeFailed carrying status and body, without an
\* identity request or a store write; only status 200 is taken as a
\* successful exchange.
C4_Not200ExchangeFailed ==
    [][\A p \in Procs :
          ExchangeAnswered(p)
              => IF loc'[p].exchange.status = 200
                 THEN resp'[p].text # ExchangeErrorMsg
                 ELSE ExchangeFailed(p)]_vars

\* C4 witness: a callback whose exchange was answered 201 has returned the
\* exchange error carrying status 201.
C4_Witness ==
    \E p \in Procs :
        /\ Returned(p, "get_token")
        /\ loc[p].exchanged
        /\ loc[p].exchange.status = 201
        /\ resp[p].text = ExchangeErrorMsg
        /\ resp[p].upstream_status = 201

\* C5 (as claimed): a 200 answer to the exchange without access_token never
\* ends in the success message, and no record without an access token is in
\* the store.
C5_TokenMissing ==
    /\ \A i \in 1..Len(users) : users[i][3] # None
    /\ \A p \in Procs :
          (/\ Returned(p, "get_token")
           /\ loc[p].exchanged
           /\ loc[p].exchange.kind = "http"
           /\ loc[p].exchange.status = 200
           /\ loc[p].exchange.shape = "object"
           /\ loc[p].exchange.value = None)
              => resp[p].text # GrantedMsg

\* C6 (as claimed): whenever the identity endpoint answers a request made
\* with a fresh access token with a non-2xx status or a body that is not JSON,
\* get_oura_email returns "unknown_user" and the callback goes on to the
\* INSERT.
C6_ResolveNeverFails ==
    [][\A p \in Procs :
          (/\ pc[p] = "resolve" /\ pc'[p] # "resolve"
           /\ loc[p].access_token \in Tokens
           /\ loc'[p].last.kind = "http"
           /\ (~Is2xx(loc'[p].last.status) \/ loc'[p].last.shape = "malformed"))
              => (pc'[p] = "insert" /\ loc'[p].email = UnknownUser)]_vars

C9_UpstreamError502 ==
    \A p \in Procs :
        (/\ Returned(p, "fetch_oura_data")
         /\ Stored(loc[p].email)
         /\ loc[p].access_token \in Tokens
         /\ loc[p].last.kind = "http"
         /\ ~Is2xx(loc[p].last.status))
            => /\ resp[p].status = 502
               /\ resp[p].error # NoError

\* C10 (as claimed): a fetch for a stored identity that has returned has
\* requested every category of the mapping exactly once, in declaration
\* order.  Stated for a stored token and for answers whose body is JSON (what
\* a body that is not JSON raises depends on the installed requests).
C10_EveryCategoryAttempted ==
    \A p \in Procs :
        (/\ Returned(p, "fetch_oura_data")
         /\ Stored(loc[p].email)
         /\ loc[p].access_token \in Tokens
         /\ loc[p].last.shape # "malformed")
            => /\ Len(sent[p]) = Len(endpoints)
               /\ \A i \in 1..Len(endpoints) : sent[p][i].endpoint = endpoints[i]

\* The keys of the result a fetch returned: the categories it lists.
ResultKeys(r) == {r.saved_files[i] : i \in 1..Len(r.saved_files)}

\* The upstream answer is a failure: no response, or a non-2xx status.
UpstreamFailed(o) == o.kind = "transport" \/ ~Is2xx(o.status)

\* C11 (as claimed): the result of a fetch for a stored identity has an entry
\* for every category of the mapping; in particular the category whose request
\* failed last is in the result, not left out.
C11_FailedCategoryInResult ==
    \A p \in Procs :
        (/\ Returned(p, "fetch_oura_data")
         /\ Stored(loc[p].email)
         /\ loc[p].access_token \in Tokens
         /\ resp[p].status = 200
         /\ UpstreamFailed(loc[p].last))
            => endpoints[Len(endpoints)] \in ResultKeys(resp[p])

\* C14 (as claimed): a transport failure of the token exchange or of identity
\* resolution ends the callback with a structured error, never with an
\* unhandled fault.
C14_TransportFailureHandled ==
    \A p \in Procs :
        (/\ Returned(p, "get_token")
         /\ loc[p].exchanged
         /\ \/ loc[p].exchange.kind = "transport"
            \/ (loc[p].access_token \in Tokens /\ loc[p].last.kind = "transport"))
            => resp[p] # Fault

\* C16: a request issues at most one upstream request per endpoint: a
\* callback at most one exchange and one identity request, a fetch at most
\* one request per category; nothing is asked a second time.
C16_NoRetries ==
    \A p \in Procs :
        \A i, j \in 1..Len(sent[p]) :
            sent[p][i].endpoint = sent[p][j].endpoint => i = j

\* A fetch went through all its categories and returned after a failed request.
C16_Witness ==
    \E p \in Procs :
        /\ Returned(p, "fetch_oura_data")
        /\ Len(sent[p]) = Len(endpoints)
        /\ UpstreamFailed(loc[p].last)
        /\ resp[p].status = 200

\* The categories whose resource is a single object, read without date
\* parameters and without unwrapping: get_oura_email reads personal_info so.
PointCategories == {"personal_info"}

\* C17 (as claimed): the request a fetch issues for a point category carries
\* the bearer token and no start/end date parameters.
C17_PointRequestUndated ==
    \A p \in Procs :
        loc[p].handler = "fetch_oura_data" =>
            \A i \in 1..Len(sent[p]) :
                sent[p][i].endpoint \in PointCategories =>
                    /\ sent[p][i].bearer = loc[p].access_token
                    /\ ~sent[p][i].dated

\* C18 (as claimed): when the request of a ranged category is answered with
\* success by a JSON object that has no data field, the category's result is
\* that body: the category is in the result, not dropped as having no data.
C18_NoDataFieldKept ==
    \A p \in Procs :
        (/\ Returned(p, "fetch_oura_data")
         /\ loc[p].access_token \in Tokens
         /\ resp[p].status = 200
         /\ endpoints[Len(endpoints)] \notin PointCategories
         /\ loc[p].last.kind = "http"
         /\ Is2xx(loc[p].last.status)
         /\ loc[p].last.shape = "object")
            => endpoints[Len(endpoints)] \in ResultKeys(resp[p])

\* The columns of the users table, in the order of a row's fields.
UsersColumns == << "id", "email", "access_token" >>

\* A row of users as a record keyed by column name.
AsRecord(row) ==
    [c \in {UsersColumns[k] : k \in 1..Len(UsersColumns)} |->
        row[CHOOSE k \in 1..Len(UsersColumns) : UsersColumns[k] = c]]

\* The refresh token the token endpoint issues together with an access token.
RefreshTokenOf(access_token) == << "refresh", access_token >>

\* C13 (as claimed): after a callback that was granted on an answer carrying
\* an access token and a refresh token, the identity's latest record holds
\* that access token and that refresh token.
C13_BothTokensStored ==
    \A p \in Procs :
        (/\ Returned(p, "get_token")
         /\ resp[p].text = GrantedMsg
         /\ loc[p].access_token \in Tokens)
            => LET m == SelectUsers(users, loc[p].email)
                   rec == AsRecord(m[Len(m)])
               IN  /\ rec.access_token = loc[p].access_token
                   /\ "refresh_token" \in DOMAIN rec
                   /\ rec.refresh_token = RefreshTokenOf(loc[p].access_token)

\* C12 (as claimed): when two concurrent callbacks for the same identity have
\* both been granted, the store holds exactly one record for the identity and
\* its token is the one of one of the two callbacks.
C12_ConcurrentUpsertOneRecord ==
    \A p, q \in Procs :
        (/\ p # q
         /\ Returned(p, "get_token") /\ resp[p].text = GrantedMsg
         /\ Returned(q, "get_token") /\ resp[q].text = GrantedMsg
         /\ loc[p].email = loc[q].email)
            => /\ Len(SelectUsers(users, loc[p].email)) = 1
               /\ LatestToken(loc[p].email) \in
                      {loc[p].access_token, loc[q].access_token}

\* The tokens the store holds for an identity.
StoredTokens(email) ==
    {users[k][3] : k \in {j \in 1..Len(users) : users[j][2] = email}}

\* C20 (as claimed): the bearer token of every request a fetch for an identity
\* issues is a token stored for that identity, whatever other requests do
\* with the shared cursor meanwhile.
C20_BearerIsOwnToken ==
    \A p \in Procs :
        loc[p].handler = "fetch_oura_data" =>
            \A i \in 1..Len(sent[p]) :
                sent[p][i].bearer \in StoredTokens(loc[p].email)

\* C15 (as claimed): a request that is waiting for the upstream (the token
\* exchange, identity resolution, or a category fetch) eventually returns,
\* also when the upstream never answers.
C15_UpstreamCallReturns ==
    \A p \in SeqProcs :
        (pc[p] \in {"exchange", "resolve", "category"}) ~> (pc[p] = "done")

\* The days of the first m months of a year, by the calendar.
RECURSIVE DaysOfMonths(_, _)
DaysOfMonths(year, m) ==
    IF m = 0 THEN 0 ELSE MonthLength(year, m) + DaysOfMonths(year, m - 1)

\* The days of the years from..to.
RECURSIVE DaysOfYears(_, _)
DaysOfYears(from, to) ==
    IF from > to THEN 0 ELSE DaysOfMonths(from, 12) + DaysOfYears(from + 1, to)

\* The place of a date among the days of its year.
DayOfYear(d) == DaysOfMonths(d[1], d[2] - 1) + d[3]

\* a is a day of the calendar and b is the day n days after it.
DaysApart(a, b, n) ==
    /\ a[2] \in 1..12
    /\ a[3] \in 1..MonthLength(a[1], a[2])
    /\ DaysOfYears(a[1], b[1] - 1) + DayOfYear(b) - DayOfYear(a) = n

\* The number a sequence of decimal digits writes.
RECURSIVE Number(_)
Number(cs) ==
    IF cs = << >> THEN 0
    ELSE 10 * Number(SubSeq(cs, 1, Len(cs) - 1))
             + (CHOOSE k \in 0..9 : Digits[k + 1] = cs[Len(cs)])

\* The text s has the form YYYY-MM-DD.
IsYmd(s) ==
    /\ Len(s) = 10
    /\ s[5] = "-" /\ s[8] = "-"
    /\ \A k \in {1, 2, 3, 4, 6, 7, 9, 10} : \E j \in 1..10 : s[k] = Digits[j]

\* The date a text of that form writes.
YmdOf(s) ==
    << Number(SubSeq(s, 1, 4)), Number(SubSeq(s, 6, 7)), Number(SubSeq(s, 9, 10)) >>

\* C19: the step of a fetch that computes the date range sets end_date to
\* the clock's date of that moment and start_date to the date exactly 365
\* days before it, both written as YYYY-MM-DD.
C19_DateWindow ==
    [][\A p \in Procs :
          (pc[p] = "fetch_row" /\ pc'[p] = "category") =>
              /\ IsYmd(loc'[p].params.end_date)
              /\ YmdOf(loc'[p].params.end_date) = today
              /\ IsYmd(loc'[p].params.start_date)
              /\ DaysApart(YmdOf(loc'[p].params.start_date), today, 365)]_vars

\* A fetch has computed its range on a 1 March after a 29 February: the
\* range starts on 2 March of the year before.
C19_Witness ==
    \E p \in Procs :
        /\ pc[p] = "category"
        /\ today[2] = 3 /\ today[3] = 1
        /\ MonthLength(today[1], 2) = 29
        /\ YmdOf(loc[p].params.end_date) = today
        /\ YmdOf(loc[p].params.start_date) = << today[1] - 1, 3, 2 >>

============================================================================
